---- MODULE Spec2Model ----
(***************************************************************************)
(* Concize backend: meeting sessions, the audio_queue job pipeline of the  *)
(* persistent worker, chunk validation and session-scoped retrieval.       *)
(***************************************************************************)
EXTENDS Integers, Sequences, FiniteSets, TLC

\* ----------------------------------------------------------------- bounds
MaxSessions == 1      \* meetings created by /api/meeting/start
MaxMsgs == 2          \* messages ever published to audio_queue
MaxRefined == 1       \* chunks one clean() call returns at most
MaxUploads == 2       \* upload requests the audio route handles
MaxChatJobs == 2      \* meeting ids chat requests and indexed chunks name
MaxChats == 2         \* chat requests
MaxIndexed == 2       \* transcript points indexed outside a modelled job
MaxTurns == 1         \* chat requests followed step by step through getLLMStreamResponse
MaxTicks == 1         \* heartbeat comments written to one open response
MaxStarts == 2        \* invocations of startWorker (server boot, then one per /start)
MaxStartMsgs == 2     \* startMeeting messages the service worker receives
MaxChunkMsgs == 2     \* onAudioChunkReady messages the service worker receives
MaxRsChunks == 3      \* chunks a RecordingService hands to handleChunkUpload

JobIds == 1..MaxSessions
NoJob == 0            \* jobId undefined (no cookie)
NoFile == 0           \* fileId undefined (message without a Cloudinary publicId)
Workers == {"w1"}

\* status values of meeting.model.js; "none" = no document, "null" = what
\* getMeetingStatus returns when the document is missing or the read failed
Uploads == 1..MaxUploads
retries == 3          \* fetchWithRetry = async (url, options, retries = 3)
Requests == 1..(IF MaxUploads > retries THEN MaxUploads ELSE retries)
ChatJobs == 1..MaxChatJobs
ChatIds == 1..MaxChats
TurnIds == 1..MaxTurns
Starts == 1..MaxStarts
StartMsgs == 1..MaxStartMsgs
ChunkMsgs == 1..MaxChunkMsgs

InProgress == "in-progress"
Completed == "completed"
StatusEnum == {InProgress, Completed}

VARIABLES
  status,               \* jobId -> stored Meeting.status, "none" when no document
  transcriptionChunks,  \* jobId -> Meeting.transcriptionChunks (text named by its job's tag)
  created,              \* number of meetings created so far (ids are fresh UUIDs)
  blobs,                \* publicIds present in Cloudinary
  queue,                \* audio_queue, messages ready for delivery
  published,            \* number of messages published so far (delivery tags)
  wk,                   \* worker -> the consume handler's position, locals and call log
  done,                 \* the handler run that finished last, until the next delivery
  channelOpen,          \* the worker's RabbitMQ channel is open
  points,               \* vector points of the transcription collection
  nextPoint,            \* number of point ids generated so far
  stopAccepted,         \* jobId -> number of /stop calls answered 202
  up,                   \* upload request -> the audio route's position, the file, the response
  chats,                \* chat request -> getLLMStreamResponse's position and retrieved context
  chatPoints,           \* vector points of the chat collection
  turn,                 \* chat request -> getLLMStreamResponse's position, locals, stream and call log
  chatDocs,             \* chatId -> the Chat document (userChat, aiChat), "none" when absent
  start,                \* jobId -> the /start request that generated it: position and response
  fx,                   \* the extension's fetchWithRetry call: position, loop locals, call log
  ws,                   \* worker.js module state: startWorker invocations, connections, consumers
  sw,                   \* the extension service worker: its flags and the listener calls in progress
  cl,                   \* one clean() call: position, attempt, call log
  rs                    \* RecordingService: upload queue, flags, uploads in progress

turnVars == <<turn, chatDocs>>
localVars == <<ws, sw, cl, rs>>
clientVars == <<start, fx, localVars>>
others == <<up, chats, chatPoints, turnVars, clientVars>>
vars == <<status, transcriptionChunks, created, blobs, queue, published, wk, done,
          channelOpen, points, nextPoint, stopAccepted, up, chats, chatPoints,
          turn, chatDocs, start, fx, ws, sw, cl, rs>>

Idle == [pc |-> "idle", tag |-> 0, jobId |-> NoJob, fileId |-> NoFile,
         text |-> "none", chunks |-> 0, log |-> <<>>]

NoUpload == [pc |-> "none", file |-> FALSE, format |-> "", size |-> 0,
             duration |-> 0, code |-> 0, stage |-> "", sent |-> 0]

NoChat == [pc |-> "none", jobId |-> NoJob, userPrompt |-> "",
           tq |-> "none", hq |-> "none",
           transcriptionContext |-> {}, chatHistory |-> {}]

NoTurn == [pc |-> "none", jobId |-> NoJob, chatId |-> 0, attempt |-> 0,
           responseValid |-> FALSE, heartbeat |-> FALSE, ended |-> FALSE,
           late |-> FALSE, out |-> <<>>, log |-> <<>>]

NoDoc == [jobId |-> NoJob, userChat |-> "", aiChat |-> "null", writes |-> 0]

NoStart == [pc |-> "none", code |-> 0, cookie |-> NoJob, worker |-> "none"]

\* let globalConnection = null; let globalChannel = null; no invocation yet
NoWs == [pc |-> [i \in Starts |-> "none"], open |-> {}, consumers |-> {},
         globalConnection |-> 0, globalChannel |-> 0]

\* a listener call that has not happened
NoCall == [pc |-> "none", final |-> FALSE, polls |-> 0]

\* let isRecording = false; let isStopping = false; let activeTabId = null;
\* let workerStatus = 'stopped'; no offscreen document, recorder off
NoSw == [isRecording |-> FALSE, isStopping |-> FALSE, activeTabId |-> "null",
         workerStatus |-> "stopped", offscreen |-> FALSE, rec |-> "off",
         session |-> 0,
         startH |-> [m \in StartMsgs |-> "none"],
         chunkH |-> [k \in ChunkMsgs |-> NoCall],
         stops |-> {}]

\* clean has not been called
NoCl == [pc |-> "none", attempt |-> 0, responses |-> <<>>, result |-> <<>>]

\* this.uploadQueue = []; this.chunkCounter = 0; _isProcessingQueue unset;
\* no upload started, nobody in processUploadQueue, waitForAllUploads not called
NoRs == [uploadQueue |-> <<>>, chunkCounter |-> 0, isProcessingQueue |-> FALSE,
         uploads |-> [c \in 1..MaxRsChunks |-> "none"],
         owner |-> "none", uploadItem |-> 0,
         wait |-> "none", pendingAtReturn |-> {}]

NoFetch == [pc |-> "none", i |-> 0, delay |-> 0, error |-> 0, log |-> <<>>]

NoRun == [tag |-> 0, jobId |-> NoJob, fileId |-> NoFile, text |-> "none",
          log |-> <<>>, outcome |-> "none"]

Init ==
  /\ status = [j \in JobIds |-> "none"]
  /\ transcriptionChunks = [j \in JobIds |-> <<>>]
  /\ created = 0
  /\ blobs = {}
  /\ queue = <<>>
  /\ published = 0
  /\ wk = [w \in Workers |-> Idle]
  /\ done = NoRun
  /\ channelOpen = TRUE
  /\ points = {}
  /\ nextPoint = 0
  /\ stopAccepted = [j \in JobIds |-> 0]
  /\ up = [r \in Requests |-> NoUpload]
  /\ chats = [c \in ChatIds |-> NoChat]
  /\ turn = [c \in TurnIds |-> NoTurn]
  /\ chatDocs = [c \in TurnIds |-> NoDoc]
  /\ chatPoints = {}
  /\ start = [j \in JobIds |-> NoStart]
  /\ fx = NoFetch
  /\ ws = NoWs
  /\ sw = NoSw
  /\ cl = NoCl
  /\ rs = NoRs

\* ------------------------------------------------------------ document store

\* createTranscription: new Meeting({jobId}).save(); the schema default sets status
NewMeetingStatus == InProgress

createTranscription(jobId, dbOk) ==
  IF dbOk
    THEN /\ status' = [status EXCEPT ![jobId] = NewMeetingStatus]
         /\ transcriptionChunks' = [transcriptionChunks EXCEPT ![jobId] = <<>>]
    ELSE UNCHANGED <<status, transcriptionChunks>>

\* getMeetingStatus: the stored status, or null when not found or the read threw
getMeetingStatus(jobId, dbOk) ==
  IF dbOk /\ jobId \in JobIds /\ status[jobId] # "none" THEN status[jobId] ELSE "null"

\* appendTranscription's result: true iff a document was found and updated
appendFound(jobId, dbOk) ==
  dbOk /\ jobId \in JobIds /\ status[jobId] # "none"

\* updateMeetingStatus's result: findOneAndUpdate({jobId}, {status: newStatus})
updateFound(jobId, dbOk) ==
  dbOk /\ jobId \in JobIds /\ status[jobId] # "none"

\* ------------------------------------------------------------ blob store

\* storeAudioFile: upload under a fresh unique public_id
storeAudioFile(fileId) == blobs \cup {fileId}

\* deleteAudioFile: cloudinary.uploader.destroy; resolves (also for a blob that is
\* already gone) or rethrows
deleteAudioFile(fileId, ok) == IF ok THEN blobs \ {fileId} ELSE blobs

\* fetchAudioFile: throws without a publicId or when the download fails
fetchFound(fileId, ok) == fileId # NoFile /\ fileId \in blobs /\ ok

\* ------------------------------------------------------------ queue

Message(tag, jobId, fileId) == [tag |-> tag, jobId |-> jobId, fileId |-> fileId]

\* sendToQueue(audio_queue, msg, {persistent: true})
sendToQueue(msg) ==
  /\ queue' = Append(queue, msg)
  /\ published' = msg.tag

\* ------------------------------------------------------------ session routes

\* POST /api/meeting/start: a fresh UUID, then createTranscription
startSession ==
  /\ created < MaxSessions
  /\ \E dbOk \in BOOLEAN : createTranscription(created + 1, dbOk)
  /\ created' = created + 1
  /\ UNCHANGED <<blobs, queue, published, wk, done, channelOpen, points,
                 nextPoint, stopAccepted,
                 others>>

\* POST /api/meeting/stop with the jobId cookie that /start issued (NoJob: no
\* cookie): publishes {jobId, terminate: true} and answers 202
stopSession(jobId) ==
  \/ /\ jobId = NoJob                          \* no cookie: 400
     /\ UNCHANGED vars
  \/ /\ jobId # NoJob                          \* connect or confirm failed: 500
     /\ UNCHANGED vars
  \/ /\ jobId # NoJob
     /\ published < MaxMsgs
     /\ sendToQueue(Message(published + 1, jobId, NoFile))
     /\ stopAccepted' = [stopAccepted EXCEPT ![jobId] = @ + 1]
     /\ UNCHANGED <<status, transcriptionChunks, created, blobs, wk, done,
                    channelOpen, points, nextPoint,
                 others>>

\* transcription.db updateMeetingStatus(jobId, newStatus)
updateMeetingStatus(jobId, newStatus) ==
  /\ \E dbOk \in BOOLEAN :
       status' = IF updateFound(jobId, dbOk)
                   THEN [status EXCEPT ![jobId] = newStatus]
                   ELSE status
  /\ UNCHANGED <<transcriptionChunks, created, blobs, queue, published, wk, done,
                 channelOpen, points, nextPoint, stopAccepted,
                 others>>

\* submit-audio-chunk as the worker's message format requires it: the chunk is
\* stored for an in-progress meeting and a job {jobId, fileId} is published
submitChunk(jobId) ==
  /\ status[jobId] = InProgress
  /\ published < MaxMsgs
  /\ blobs' = storeAudioFile(published + 1)
  /\ sendToQueue(Message(published + 1, jobId, published + 1))
  /\ UNCHANGED <<status, transcriptionChunks, created, wk, done, channelOpen,
                 points, nextPoint, stopAccepted,
                 others>>

\* ------------------------------------------------------------ persistent worker
\* the consume handler of startWorker, one step per await

\* the handler's call log with one more call
Logged(w, op, res) == Append(wk[w].log, <<op, res>>)

\* the record of a finished handler run
Finished(w, lg, outcome) ==
  [tag |-> wk[w].tag, jobId |-> wk[w].jobId, fileId |-> wk[w].fileId,
   text |-> wk[w].text, log |-> lg, outcome |-> outcome]

\* the requeue argument of globalChannel.nack(msg, false, requeue) in the catch block
NackRequeue == FALSE

\* (variant: the catch block returns without settling the message)
NackSkipped(w, lg) ==
  /\ done' = Finished(w, lg, "returned")
  /\ queue' = queue
  /\ wk' = [wk EXCEPT ![w] = Idle]
\* globalChannel.nack(msg, false, false); throws on a closed channel, and the
\* handler's rejection is then unhandled
Nack(w, lg) ==
  LET m == wk[w] IN
  IF channelOpen
    THEN /\ done' = Finished(w, Append(lg, <<"nack", "ok">>),
                             IF NackRequeue THEN "requeued" ELSE "nacked")
         /\ queue' = IF NackRequeue
                       THEN <<Message(m.tag, m.jobId, m.fileId)>> \o queue
                       ELSE queue
         /\ wk' = [wk EXCEPT ![w] = Idle]
    ELSE /\ done' = Finished(w, Append(lg, <<"nack", "throw">>), "unsettled")
         /\ queue' = queue
         /\ wk' = [wk EXCEPT ![w] = [Idle EXCEPT !.pc = "crashed"]]

\* (variant: the handler acknowledges whatever happened)
FailAcks(w, lg) ==
  /\ done' = Finished(w, Append(lg, <<"ack", "ok">>), "acked")
  /\ wk' = [wk EXCEPT ![w] = Idle]
  /\ UNCHANGED queue

\* a throw inside the try block: the catch block deletes the blob when fileId is
\* set (an await), otherwise it nacks at once
Fail(w, lg) ==
  IF wk[w].fileId # NoFile
    THEN /\ wk' = [wk EXCEPT ![w].pc = "catch", ![w].log = lg]
         /\ UNCHANGED <<done, queue>>
    ELSE Nack(w, lg)

\* globalChannel.ack(msg) inside the try block
Ack(w, lg) ==
  IF channelOpen
    THEN /\ done' = Finished(w, Append(lg, <<"ack", "ok">>), "acked")
         /\ wk' = [wk EXCEPT ![w] = Idle]
         /\ UNCHANGED queue
    ELSE Fail(w, Append(lg, <<"ack", "throw">>))

\* globalChannel.prefetch(1)
prefetchCount == 1

\* (variant: noAck: true, the broker counts no delivery as unsettled)
UnackedAutoAck(w) == 0
\* noAck: false: the deliveries of this consumer that are neither acked nor
\* nacked; a handler run settles its message as its last call
Unacked(w) == IF wk[w].pc = "idle" THEN 0 ELSE 1

\* prefetch(1), noAck: false: the broker hands over the next message only while
\* the consumer holds fewer unsettled ones than the prefetch count; the
\* callback starts a handler run for it and parses it
Deliver(w) ==
  /\ channelOpen
  /\ Unacked(w) < prefetchCount
  /\ queue # <<>>
  /\ LET msg == Head(queue) IN
       wk' = [wk EXCEPT ![w] = [pc |-> "status", tag |-> msg.tag,
                                jobId |-> msg.jobId, fileId |-> msg.fileId,
                                text |-> "none", chunks |-> 0, log |-> <<>>]]
  /\ queue' = Tail(queue)
  /\ done' = NoRun
  /\ UNCHANGED <<status, transcriptionChunks, created, blobs, published,
                 channelOpen, points, nextPoint, stopAccepted,
                 others>>

\* (variant: no completed-meeting check)
AfterStatusUnchecked(s) == "fetch"

\* where the handler goes after the status read
AfterStatus(s) == IF s = Completed THEN "skip" ELSE "fetch"

\* const meetingStatus = await getMeetingStatus(jobId)
CheckStatus(w) ==
  /\ wk[w].pc = "status"
  /\ \E dbOk \in BOOLEAN :
       LET s == getMeetingStatus(wk[w].jobId, dbOk) IN
       wk' = [wk EXCEPT ![w].pc = AfterStatus(s),
                        ![w].log = Logged(w, "status", IF dbOk THEN s ELSE "error")]
  /\ UNCHANGED <<status, transcriptionChunks, created, blobs, queue, published,
                 done, channelOpen, points, nextPoint, stopAccepted,
                 others>>

\* meeting completed: await deleteAudioFile(fileId); globalChannel.ack(msg); return
SkipCompleted(w) ==
  /\ wk[w].pc = "skip"
  /\ \E ok \in BOOLEAN :
       /\ blobs' = deleteAudioFile(wk[w].fileId, ok)
       /\ IF ok THEN Ack(w, Logged(w, "delete", "ok"))
                ELSE Fail(w, Logged(w, "delete", "throw"))
  /\ UNCHANGED <<status, transcriptionChunks, created, published, channelOpen,
                 points, nextPoint, stopAccepted,
                 others>>

\* const audioBuffer = await fetchAudioFile(fileId)
Fetch(w) ==
  /\ wk[w].pc = "fetch"
  /\ \E ok \in BOOLEAN :
       IF fetchFound(wk[w].fileId, ok)
         THEN /\ wk' = [wk EXCEPT ![w].pc = "transcribe",
                                  ![w].log = Logged(w, "fetch", "ok")]
              /\ UNCHANGED <<done, queue>>
         ELSE Fail(w, Logged(w, "fetch", "throw"))
  /\ UNCHANGED <<status, transcriptionChunks, created, blobs, published,
                 channelOpen, points, nextPoint, stopAccepted,
                 others>>

\* (variant: blank text counts as text)
NonBlankAlways(text) == TRUE
\* transcribedText && transcribedText.trim().length > 0
NonBlank(text) == text = "text"

\* const transcribeResult = await transcribe(audioBuffer, metadata)
Transcribe(w) ==
  /\ wk[w].pc = "transcribe"
  /\ \E r \in {"fail", "blank", "text"} :
       IF r = "fail"
         THEN Fail(w, Logged(w, "transcribe", "fail"))
         ELSE /\ wk' = [wk EXCEPT ![w].text = r,
                                  ![w].pc = IF NonBlank(r) THEN "append" ELSE "delete",
                                  ![w].log = Logged(w, "transcribe", r)]
              /\ UNCHANGED <<done, queue>>
  /\ UNCHANGED <<status, transcriptionChunks, created, blobs, published,
                 channelOpen, points, nextPoint, stopAccepted,
                 others>>

\* appendTranscription: findOneAndUpdate({jobId}, {$push: {transcriptionChunks}})
appendTranscription(jobId, text) ==
  [transcriptionChunks EXCEPT ![jobId] = Append(@, text)]

\* const appendResult = await appendTranscription(jobId, transcribedText)
AppendText(w) ==
  /\ wk[w].pc = "append"
  /\ \E dbOk \in BOOLEAN :
       IF appendFound(wk[w].jobId, dbOk)
         THEN /\ transcriptionChunks' = appendTranscription(wk[w].jobId, wk[w].tag)
              /\ wk' = [wk EXCEPT ![w].pc = "clean",
                                  ![w].log = Logged(w, "append", "ok")]
              /\ UNCHANGED <<done, queue>>
         ELSE /\ UNCHANGED transcriptionChunks
              /\ Fail(w, Logged(w, "append", "false"))
  /\ UNCHANGED <<status, created, blobs, published, channelOpen, points,
                 nextPoint, stopAccepted,
                 others>>

\* const cleanedChunks = await clean(transcribedText): an array, or a throw
Clean(w) ==
  /\ wk[w].pc = "clean"
  /\ \/ Fail(w, Logged(w, "clean", "throw"))
     \/ \E n \in 0..MaxRefined :
          /\ wk' = [wk EXCEPT ![w].chunks = n,
                              ![w].pc = IF n > 0 THEN "upsert" ELSE "delete",
                              ![w].log = Logged(w, "clean",
                                                IF n > 0 THEN "chunks" ELSE "empty")]
          /\ UNCHANGED <<done, queue>>
  /\ UNCHANGED <<status, transcriptionChunks, created, blobs, published,
                 channelOpen, points, nextPoint, stopAccepted,
                 others>>

\* the payload tag upsertTranscriptionChunks gives each point
PointJobId(jobId) == jobId

\* the points upsertTranscriptionChunks builds: one per embedded chunk, each
\* with id uuidv4() and payload.jobId (by: the meeting of the job that built it)
NewPoints(jobId, src, k) ==
  {[id |-> nextPoint + i, jobId |-> PointJobId(jobId), src |-> src, by |-> jobId] :
     i \in 1..k}

\* const embedResult = await upsertTranscriptionChunks(jobId, cleanedChunks, metadata);
\* k chunks got a vector; none, or a throw inside, gives {success: false}
Upsert(w) ==
  /\ wk[w].pc = "upsert"
  /\ \E k \in 0..wk[w].chunks :
       IF k > 0
         THEN /\ points' = points \cup NewPoints(wk[w].jobId, wk[w].tag, k)
              /\ nextPoint' = nextPoint + k
              /\ wk' = [wk EXCEPT ![w].pc = "delete",
                                  ![w].log = Logged(w, "upsert", "ok")]
              /\ UNCHANGED <<done, queue>>
         ELSE /\ UNCHANGED <<points, nextPoint>>
              /\ Fail(w, Logged(w, "upsert", "fail"))
  /\ UNCHANGED <<status, transcriptionChunks, created, blobs, published,
                 channelOpen, stopAccepted,
                 others>>

\* await deleteAudioFile(fileId); globalChannel.ack(msg)
DeleteProcessed(w) ==
  /\ wk[w].pc = "delete"
  /\ \E ok \in BOOLEAN :
       /\ blobs' = deleteAudioFile(wk[w].fileId, ok)
       /\ IF ok THEN Ack(w, Logged(w, "delete", "ok"))
                ELSE Fail(w, Logged(w, "delete", "throw"))
  /\ UNCHANGED <<status, transcriptionChunks, created, published, channelOpen,
                 points, nextPoint, stopAccepted,
                 others>>

\* catch: if (fileId) { try { await deleteAudioFile(fileId) } catch {} }; nack
Catch(w) ==
  /\ wk[w].pc = "catch"
  /\ \E ok \in BOOLEAN :
       /\ blobs' = deleteAudioFile(wk[w].fileId, ok)
       /\ Nack(w, Logged(w, "delete", IF ok THEN "ok" ELSE "throw"))
  /\ UNCHANGED <<status, transcriptionChunks, created, published, channelOpen,
                 points, nextPoint, stopAccepted,
                 others>>

\* the channel closes under the worker (the 'close' handlers only log)
ChannelClose ==
  /\ channelOpen
  /\ channelOpen' = FALSE
  /\ UNCHANGED <<status, transcriptionChunks, created, blobs, queue, published,
                 wk, done, points, nextPoint, stopAccepted,
                 others>>

Next ==
  \/ startSession
  \/ \E j \in 0..created : stopSession(j)
  \/ \E j \in JobIds, s \in StatusEnum :      \* (an update that finds no document
       /\ status[j] \notin {"none", s}         \* or sets the stored value changes nothing)
       /\ updateMeetingStatus(j, s)
  \/ \E j \in JobIds : submitChunk(j)
  \/ \E w \in Workers :
       \/ Deliver(w)
       \/ CheckStatus(w)
       \/ SkipCompleted(w)
       \/ Fetch(w)
       \/ Transcribe(w)
       \/ AppendText(w)
       \/ Clean(w)
       \/ Upsert(w)
       \/ DeleteProcessed(w)
       \/ Catch(w)
  \/ ChannelClose

Spec == Init /\ [][Next]_vars

\* ------------------------------------------------------------ call logs

Calls(lg, op) == {i \in DOMAIN lg : lg[i][1] = op}
Called(lg, op, res) == \E i \in DOMAIN lg : lg[i] = <<op, res>>
Settled == done.outcome # "none"
WorkSteps == {"fetch", "transcribe", "append", "clean", "upsert"}
Failures == {<<"status", "error">>, <<"fetch", "throw">>, <<"transcribe", "fail">>,
             <<"append", "false">>, <<"clean", "throw">>, <<"upsert", "fail">>,
             <<"delete", "throw">>}

\* ------------------------------------------------------------ claims

\* C1 (as claimed): once stop-session has returned for a meeting, no chunk is
\* appended to that meeting's transcript any more.
C1_NoAppendAfterStop ==
  [][\A j \in JobIds :
       stopAccepted[j] > 0 => transcriptionChunks'[j] = transcriptionChunks[j]]_vars

\* C2 (as claimed): a finished handler run for a job with a blob has called
\* deleteAudioFile exactly once.
C2_ExactlyOneDelete ==
  (Settled /\ done.fileId # NoFile) => Cardinality(Calls(done.log, "delete")) = 1

\* C3 (as claimed): a second accepted stop-session call leaves the meeting
\* completed and changes nothing else (no further message is published).
C3_SecondStopIsNoOp ==
  [][\A j \in JobIds :
       (stopAccepted[j] >= 1 /\ stopAccepted'[j] = stopAccepted[j] + 1)
         => (status'[j] = Completed /\ queue' = queue /\ published' = published)]_vars

\* C4 (as claimed): once stop-session has been accepted for an existing meeting
\* and the worker has drained the queue, the stored status is completed.
C4_StopCompletes ==
  \A j \in JobIds :
    (stopAccepted[j] > 0 /\ status[j] # "none" /\ queue = <<>>
       /\ \A w \in Workers : wk[w].pc = "idle")
      => status[j] = Completed

C8_FailureIsNacked ==
  (done.outcome \in {"acked", "nacked", "requeued"}
     /\ \E f \in Failures : Called(done.log, f[1], f[2]))
    => done.outcome = "nacked"

supportedFormats == {"mp3", "wav", "flac", "m4a", "ogg", "webm", "mp4", "mpeg", "mpga"}
MaxBytes == 104857600        \* 100 * 1024 * 1024
MaxDuration == 900           \* 15 * 60 seconds

\* the files a client may upload: ffprobe's format_name, size and duration
Formats == {"webm", "avi"}
Sizes == {20971520, MaxBytes, MaxBytes + 1}
Durations == {600, MaxDuration, MaxDuration + 1, 960}

UnsupportedFormat(format) == format \notin supportedFormats
TooLarge(size) == size > MaxBytes
TooLong(duration) == duration > 15 * 60

Respond(r, stage, code) ==
  up' = [up EXCEPT ![r].pc = "responded", ![r].code = code, ![r].stage = stage]

pipeline == <<status, transcriptionChunks, created, blobs, wk, done, channelOpen,
              points, nextPoint, stopAccepted, clientVars>>

\* upload.single('audio'): multer buffers the file; a file above limits.fileSize
\* makes it pass LIMIT_FILE_SIZE to next(err), and with no error middleware
\* mounted (index.js) Express's default handler answers 500
fileSizeLimit == 104857600   \* 100 * 1024 * 1024

\* the request arrives: multer runs, then the handler answers 400 without a
\* file and otherwise starts fs.writeFile
Receive(r) ==
  /\ up[r].pc = "none"
  /\ \/ Respond(r, "handler", 400)
     \/ \E f \in Formats, sz \in Sizes, d \in Durations :
          up' = [up EXCEPT ![r] =
                   [pc |-> IF sz > fileSizeLimit THEN "responded" ELSE "write",
                    file |-> TRUE, format |-> f, size |-> sz, duration |-> d,
                    code |-> IF sz > fileSizeLimit THEN 500 ELSE 0,
                    stage |-> IF sz > fileSizeLimit THEN "multer" ELSE "",
                    sent |-> 0]]
  /\ UNCHANGED <<pipeline, queue, published, chats, chatPoints, turnVars>>

\* fs.writeFile's callback: 500 on a write error, otherwise ffprobe is started
WriteDone(r) ==
  /\ up[r].pc = "write"
  /\ \/ Respond(r, "write", 500)
     \/ up' = [up EXCEPT ![r].pc = "probe"]
  /\ UNCHANGED <<pipeline, queue, published, chats, chatPoints, turnVars>>

\* (variant: the duration is checked before the format)
ProbeDoneDurationFirst(r) ==
  /\ up[r].pc = "probe"
  /\ \/ Respond(r, "probe", 400)
     \/ IF TooLong(up[r].duration) THEN Respond(r, "duration", 400)
        ELSE IF UnsupportedFormat(up[r].format) THEN Respond(r, "format", 400)
        ELSE IF TooLarge(up[r].size) THEN Respond(r, "size", 400)
        ELSE up' = [up EXCEPT ![r].pc = "connect"]
  /\ UNCHANGED <<pipeline, queue, published, chats, chatPoints, turnVars>>
\* ffprobe's callback: the format, size and duration checks, then amqp.connect
ProbeDone(r) ==
  /\ up[r].pc = "probe"
  /\ \/ Respond(r, "probe", 400)                          \* ffprobe error
     \/ IF UnsupportedFormat(up[r].format) THEN Respond(r, "format", 400)
        ELSE IF TooLarge(up[r].size) THEN Respond(r, "size", 400)
        ELSE IF TooLong(up[r].duration) THEN Respond(r, "duration", 400)
        ELSE up' = [up EXCEPT ![r].pc = "connect"]
  /\ UNCHANGED <<pipeline, queue, published, chats, chatPoints, turnVars>>

\* amqp.connect's callback: 500 on a connection error, otherwise createChannel
Connected(r) ==
  /\ up[r].pc = "connect"
  /\ \/ Respond(r, "connect", 500)
     \/ up' = [up EXCEPT ![r].pc = "channel"]
  /\ UNCHANGED <<pipeline, queue, published, chats, chatPoints, turnVars>>

\* createChannel's callback: 500 on a channel error; otherwise the message
\* {audioBufferData, metadata} is sent (202), or sendToQueue throws (500)
ChannelCreated(r) ==
  /\ up[r].pc = "channel"
  /\ \/ /\ Respond(r, "channel", 500)
        /\ UNCHANGED <<queue, published>>
     \/ /\ sendToQueue(Message(published + 1, NoJob, NoFile))
        /\ up' = [up EXCEPT ![r].pc = "responded", ![r].code = 202,
                            ![r].stage = "sent", ![r].sent = published + 1]
  /\ UNCHANGED <<pipeline, chats, chatPoints, turnVars>>

NextIngest ==
  \E r \in Uploads :
    \/ Receive(r)
    \/ WriteDone(r)
    \/ ProbeDone(r)
    \/ Connected(r)
    \/ ChannelCreated(r)

SpecIngest == Init /\ [][NextIngest]_vars

\* a file that fails one of the three validation rules
FailsValidation(u) ==
  u.file /\ (u.format \notin supportedFormats \/ u.size > MaxBytes
               \/ u.duration > MaxDuration)

\* C6: an upload whose file fails validation (duration above 15 minutes, size
\* above the maximum, format outside the list) is answered with a 4xx status
\* unless the temporary file could not be written, no message for it is
\* published, and no blob is stored.
C6_InvalidRejected4xx ==
  /\ blobs = {}
  /\ \A r \in Uploads :
       FailsValidation(up[r]) =>
         /\ up[r].sent = 0
         /\ (up[r].pc = "responded" /\ up[r].stage # "write")
              => up[r].code \in 400..499

\* ------------------------------------------------------------------- chat
\* controllers/chatLLM.js getLLMStreamResponse, with the vector store's two
\* collections (queryVectordb.js, embedTranscriptions.js, embedChat.js)

Prompts == {"summary"}
TranscriptLimit == 5         \* queryTranscriptions(userPrompt, jobId, 5)
ChatLimit == 3               \* queryChats(userPrompt, jobId, 3)

\* res.end() and return: the request is over and its locals are gone
Ended == [NoChat EXCEPT !.pc = "ended"]

Min(a, b) == IF a < b THEN a ELSE b

\* (variant: a search without the payload filter)
MatchesAny(payload, jobId) == TRUE
\* filter: { must: [{ key: "jobId", match: { value: jobId } }] }
Matches(payload, jobId) == payload.jobId = jobId

\* client.search(collection, {vector, filter, limit}): the limit best-scoring
\* points among those the filter lets through; the scores depend on the
\* vectors, so any selection of that size is possible
Search(collection, jobId, limit) ==
  LET pass == {p \in collection : Matches(p, jobId)}
  IN  {H \in SUBSET pass : Cardinality(H) = Min(limit, Cardinality(pass))}

chatRest == <<status, transcriptionChunks, created, blobs, queue, published, wk,
              done, channelOpen, stopAccepted, up, turnVars, clientVars>>

\* upsertTranscriptionChunks(jobId, cleanedChunks, metadata) as the worker calls
\* it for a job of meeting jobId: k points enter the transcription collection
IndexChunks(jobId) ==
  /\ nextPoint < MaxIndexed
  /\ \E k \in 1..(MaxIndexed - nextPoint) :
       /\ points' = points \cup NewPoints(jobId, 0, k)
       /\ nextPoint' = nextPoint + k
  /\ UNCHANGED <<chatRest, chats, chatPoints>>

\* POST /api/chat with {userPrompt, jobId}: both queries are started
\* (Promise.all); requests are numbered in their order of arrival
ChatStart(c) ==
  /\ chats[c].pc = "none"
  /\ \A d \in ChatIds : d < c => chats[d].pc # "none"
  /\ \E j \in ChatJobs, q \in Prompts :
       chats' = [chats EXCEPT ![c] = [NoChat EXCEPT !.pc = "query", !.jobId = j,
                                                    !.userPrompt = q,
                                                    !.tq = "pending",
                                                    !.hq = "pending"]]
  /\ UNCHANGED <<chatRest, points, nextPoint, chatPoints>>

\* queryTranscriptions resolves: [] without a query vector, the payloads of the
\* hits otherwise; an error is rethrown and rejects Promise.all
queryTranscriptions(c) ==
  /\ chats[c].pc = "query" /\ chats[c].tq = "pending"
  /\ \/ chats' = [chats EXCEPT ![c].tq = "done"]
     \/ chats' = [chats EXCEPT ![c] = Ended]
     \/ \E H \in Search(points, chats[c].jobId, TranscriptLimit) :
          chats' = [chats EXCEPT ![c].tq = "done", ![c].transcriptionContext = H]
  /\ UNCHANGED <<chatRest, points, nextPoint, chatPoints>>

\* queryChats resolves, in the same three ways, from the chat collection
queryChats(c) ==
  /\ chats[c].pc = "query" /\ chats[c].hq = "pending"
  /\ \/ chats' = [chats EXCEPT ![c].hq = "done"]
     \/ chats' = [chats EXCEPT ![c] = Ended]
     \/ \E H \in Search(chatPoints, chats[c].jobId, ChatLimit) :
          chats' = [chats EXCEPT ![c].hq = "done", ![c].chatHistory = H]
  /\ UNCHANGED <<chatRest, points, nextPoint, chatPoints>>

\* both queries resolved: createChatEntry(jobId, userPrompt); a failure ends
\* the stream with an apology
CreateEntry(c) ==
  /\ chats[c].pc = "query" /\ chats[c].tq = "done" /\ chats[c].hq = "done"
  /\ \E dbOk \in BOOLEAN :
       chats' = [chats EXCEPT ![c] = IF dbOk THEN [@ EXCEPT !.pc = "generate"]
                                              ELSE Ended]
  /\ UNCHANGED <<chatRest, points, nextPoint, chatPoints>>

\* the point upsertChatPair builds: id chatId, payload.jobId = jobId
\* (by: the session of the chat request that built it)
ChatPoint(c, jobId) == [id |-> c, jobId |-> PointJobId(jobId), by |-> jobId]

\* the model's answer: a valid response is stored with updateChatEntry and
\* embedded with upsertChatPair (whose failures are swallowed); then stream_end
Answer(c) ==
  /\ chats[c].pc = "generate"
  /\ chats' = [chats EXCEPT ![c] = Ended]
  /\ \/ chatPoints' = chatPoints \cup {ChatPoint(c, chats[c].jobId)}
     \/ UNCHANGED chatPoints
  /\ UNCHANGED <<chatRest, points, nextPoint>>

NextChat ==
  \/ \E j \in ChatJobs : IndexChunks(j)
  \/ \E c \in ChatIds :
       \/ ChatStart(c)
       \/ queryTranscriptions(c)
       \/ queryChats(c)
       \/ CreateEntry(c)
       \/ Answer(c)

SpecChat == Init /\ [][NextChat]_vars

\* C7: every point of both collections carries the session id of the job or
\* chat request that built it, and the transcript and chat-history context a
\* chat holds consists only of points built by that chat's own session.
C7_SessionIsolated ==
  /\ \A p \in points : p.jobId = p.by
  /\ \A p \in chatPoints : p.jobId = p.by
  /\ \A c \in ChatIds :
       /\ \A p \in chats[c].transcriptionContext : p.by = chats[c].jobId
       /\ \A p \in chats[c].chatHistory : p.by = chats[c].jobId

\* two chats with the same prompt on different sessions are in flight together,
\* both sessions have transcript points, and each chat holds transcript context
C7_Witness ==
  \E a, b \in ChatIds :
    /\ chats[a].jobId # NoJob /\ chats[b].jobId # NoJob
    /\ chats[a].jobId # chats[b].jobId
    /\ chats[a].userPrompt = chats[b].userPrompt
    /\ chats[a].pc = "query" /\ chats[b].pc = "query"
    /\ chats[a].transcriptionContext # {}
    /\ chats[b].transcriptionContext # {}
    /\ chats[a].hq = "done" /\ chats[b].hq = "done"

\* -------------------------------------------------------------- chat turn
\* controllers/chatLLM.js getLLMStreamResponse, one step per await, with what
\* it writes to the response (out) and the calls it makes (log)

maxAttempts == 2             \* for (let attempt = 0; attempt < 2; attempt++)

\* what one generateContentStream call can do: reject, or stream no chunk, a
\* whitespace chunk, or a text chunk and finish; or stream a text chunk and fail
Generations == {"throw", "empty", "blank", "text", "textThenThrow"}

\* the fragments res.write sends while the stream is read
Fragments(g) ==
  CASE g = "blank" -> <<"blank">>
    [] g \in {"text", "textThenThrow"} -> <<"text">>
    [] OTHER -> <<>>

\* currentResponseChunk.trim() is non-empty and the stream finished
ValidResponse(g) == g = "text"
Throws(g) == g \in {"throw", "textThenThrow"}

turnRest == <<status, transcriptionChunks, created, blobs, queue, published, wk,
              done, channelOpen, points, nextPoint, stopAccepted, up, chats,
              clientVars>>

Called2(c, op, res) == Append(turn[c].log, <<op, res>>)

\* (variant: the apology is written and the response is left open)
ApologiseOnly(c, lg) ==
  turn' = [turn EXCEPT ![c].pc = "returned", ![c].log = lg,
                       ![c].out = Append(turn[c].out, "apology")]
\* res.write(apology); res.write(stream_end); res.end()
Apologise(c, lg) ==
  turn' = [turn EXCEPT ![c].pc = "returned", ![c].ended = TRUE, ![c].log = lg,
                       ![c].out = turn[c].out \o <<"apology", "stream_end">>]

\* the request reaches getLLMStreamResponse: headers are flushed and both
\* queries are started
TurnStart(c) ==
  /\ turn[c].pc = "none"
  /\ \A d \in TurnIds : d < c => turn[d].pc # "none"
  /\ \E j \in ChatJobs :
       turn' = [turn EXCEPT ![c].pc = "retrieve", ![c].jobId = j]
  /\ UNCHANGED <<turnRest, chatPoints, chatDocs>>

\* await Promise.all([queryTranscriptions, queryChats]); a rejection goes to
\* the outer catch
Retrieve(c) ==
  /\ turn[c].pc = "retrieve"
  /\ \/ turn' = [turn EXCEPT ![c].pc = "create",
                             ![c].log = Called2(c, "retrieve", "ok")]
     \/ Apologise(c, Called2(c, "retrieve", "throw"))
  /\ UNCHANGED <<turnRest, chatPoints, chatDocs>>

\* createChatEntry: new Chat({jobId, userChat}).save(), aiChat unset
createChatEntry(c, jobId) ==
  [chatDocs EXCEPT ![c] = [jobId |-> jobId, userChat |-> "prompt",
                           aiChat |-> "null", writes |-> 0]]

\* (variant: a failed createChatEntry is only logged)
AfterCreateFailedContinue(c) ==
  turn' = [turn EXCEPT ![c].pc = "generate", ![c].log = Called2(c, "create", "throw")]
\* catch (dbError): apology, stream_end, return res.end()
AfterCreateFailed(c) == Apologise(c, Called2(c, "create", "throw"))

\* Step 3: the chat entry is created before the response is generated
CreateTurn(c) ==
  /\ turn[c].pc = "create"
  /\ \/ /\ chatDocs' = createChatEntry(c, turn[c].jobId)
        /\ turn' = [turn EXCEPT ![c].pc = "generate", ![c].chatId = c,
                                ![c].log = Called2(c, "create", "ok")]
     \/ /\ AfterCreateFailed(c)
        /\ UNCHANGED chatDocs
  /\ UNCHANGED <<turnRest, chatPoints>>

\* await llmModel.generateContentStream(...) of the current attempt is issued
GenerateCall(c) ==
  /\ turn[c].pc = "generate"
  /\ turn' = [turn EXCEPT ![c].pc = "generating",
                          ![c].log = Called2(c, "generate", "call")]
  /\ UNCHANGED <<turnRest, chatPoints, chatDocs>>

\* (variant: the loop does not break on a valid response)
LoopExitNever(valid, attempt) == attempt + 1 >= maxAttempts
\* break on a valid response, otherwise the loop ends after maxAttempts
LoopExit(valid, attempt) == valid \/ attempt + 1 >= maxAttempts

\* the attempt's stream is read to its end or fails: fragments are written as
\* they arrive; a valid response breaks the loop and starts the heartbeat
\* timer; an error on the last attempt is rethrown to the outer catch
GenerateDone(c) ==
  /\ turn[c].pc = "generating"
  /\ \E g \in Generations :
       LET out == turn[c].out \o Fragments(g)
           lg == Called2(c, "generated", g)
       IN  IF Throws(g) /\ turn[c].attempt = maxAttempts - 1
             THEN turn' = [turn EXCEPT ![c].pc = "returned", ![c].ended = TRUE,
                                       ![c].log = lg,
                                       ![c].out = out \o <<"apology", "stream_end">>]
           ELSE IF LoopExit(ValidResponse(g), turn[c].attempt)
             THEN turn' = [turn EXCEPT ![c].pc = IF ValidResponse(g) THEN "update"
                                                                    ELSE "failed",
                                       ![c].responseValid = ValidResponse(g),
                                       ![c].heartbeat = ValidResponse(g),
                                       ![c].out = out, ![c].log = lg]
           ELSE turn' = [turn EXCEPT ![c].pc = "generate",
                                     ![c].attempt = turn[c].attempt + 1,
                                     ![c].out = out, ![c].log = lg]
  /\ UNCHANGED <<turnRest, chatPoints, chatDocs>>

\* updateChatEntry(chatId, fullResponseText): findByIdAndUpdate $set aiChat
updateChatEntry(chatId) ==
  [chatDocs EXCEPT ![chatId].aiChat = "answer", ![chatId].writes = @ + 1]

\* Step 6, first await: if (chatId) the answer is written; a throw is caught
\* and logged, and skips the upsert
UpdateTurn(c) ==
  /\ turn[c].pc = "update"
  /\ IF turn[c].chatId = 0
       THEN /\ turn' = [turn EXCEPT ![c].pc = "finish"]
            /\ UNCHANGED chatDocs
       ELSE \/ /\ chatDocs' = updateChatEntry(turn[c].chatId)
               /\ turn' = [turn EXCEPT ![c].pc = "upsert",
                                       ![c].log = Called2(c, "update", "ok")]
            \/ /\ turn' = [turn EXCEPT ![c].pc = "finish",
                                       ![c].log = Called2(c, "update", "throw")]
               /\ UNCHANGED chatDocs
  /\ UNCHANGED <<turnRest, chatPoints>>

\* Step 6, second await: upsertChatPair(jobId, userPrompt, fullResponseText,
\* chatId); it never throws, {success: false} is ignored
UpsertPair(c) ==
  /\ turn[c].pc = "upsert"
  /\ \/ /\ chatPoints' = chatPoints \cup {ChatPoint(turn[c].chatId, turn[c].jobId)}
        /\ turn' = [turn EXCEPT ![c].pc = "finish",
                                ![c].log = Called2(c, "upsert", "ok")]
     \/ /\ turn' = [turn EXCEPT ![c].pc = "finish",
                                ![c].log = Called2(c, "upsert", "fail")]
        /\ UNCHANGED chatPoints
  /\ UNCHANGED <<turnRest, chatDocs>>

\* res.write(stream_end); res.end()
Finish(c) ==
  /\ turn[c].pc = "finish"
  /\ turn' = [turn EXCEPT ![c].pc = "returned", ![c].ended = TRUE,
                          ![c].out = Append(turn[c].out, "stream_end")]
  /\ UNCHANGED <<turnRest, chatPoints, chatDocs>>

\* else branch: no valid response after all attempts
FinalFailure(c) ==
  /\ turn[c].pc = "failed"
  /\ Apologise(c, turn[c].log)
  /\ UNCHANGED <<turnRest, chatPoints, chatDocs>>

Heartbeats(out) == Cardinality({i \in DOMAIN out : out[i] = "heartbeat"})

\* the setInterval callback: res.write(':heartbeat'); nothing clears the timer,
\* so it also fires on a response that has ended, where the write is refused
Tick(c) ==
  /\ turn[c].heartbeat
  /\ IF turn[c].ended
       THEN /\ ~turn[c].late
            /\ turn' = [turn EXCEPT ![c].late = TRUE]
       ELSE /\ Heartbeats(turn[c].out) < MaxTicks
            /\ turn' = [turn EXCEPT ![c].out = Append(turn[c].out, "heartbeat")]
  /\ UNCHANGED <<turnRest, chatPoints, chatDocs>>

TurnStep(c) ==
  \/ Retrieve(c)
  \/ CreateTurn(c)
  \/ GenerateCall(c)
  \/ GenerateDone(c)
  \/ UpdateTurn(c)
  \/ UpsertPair(c)
  \/ Finish(c)
  \/ FinalFailure(c)

NextTurn ==
  \E c \in TurnIds :
    \/ TurnStart(c)
    \/ TurnStep(c)
    \/ Tick(c)

SpecTurn == Init /\ [][NextTurn]_vars

\* every await of the handler settles
SpecTurnLive == SpecTurn /\ \A c \in TurnIds : WF_vars(TurnStep(c))

\* ------------------------------------------------- chat turn: properties

Count(seq, x) == Cardinality({i \in DOMAIN seq : seq[i] = x})
IsData(e) == e # "heartbeat"
Data(out) == SelectSeq(out, IsData)
Last(seq) == seq[Len(seq)]
\* positions of a call in the log
At(lg, op) == {i \in DOMAIN lg : lg[i][1] = op}
Has(lg, op, res) == \E i \in DOMAIN lg : lg[i] = <<op, res>>
Outcomes(lg) == SelectSeq(lg, LAMBDA e : e[1] = "generated")

\* C12: a chat request that reached the orchestrator ends: at most one
\* stream_end is ever written, an ended response holds exactly one and it is
\* its last data event, and every started request eventually is ended.
C12_StreamAlwaysEnds ==
  /\ [](\A c \in TurnIds :
          /\ Count(turn[c].out, "stream_end") <= 1
          /\ Count(turn[c].out, "stream_end") = 1 <=> turn[c].ended
          /\ turn[c].ended => Last(Data(turn[c].out)) = "stream_end")
  /\ \A c \in TurnIds : (turn[c].pc # "none") ~> turn[c].ended

\* a request whose last generation attempt failed after a fragment has ended
C12_Witness ==
  \E c \in TurnIds :
    /\ turn[c].ended
    /\ turn[c].attempt = maxAttempts - 1
    /\ Has(turn[c].log, "generated", "textThenThrow")
    /\ Has(turn[c].log, "generated", "blank")

\* the failures C13 names: retrieval, generation on the last attempt, creating
\* the chat entry, writing its answer
Irrecoverable(t) ==
  \/ Has(t.log, "retrieve", "throw")
  \/ Has(t.log, "create", "throw")
  \/ Has(t.log, "update", "throw")
  \/ Len(Outcomes(t.log)) = maxAttempts /\ Throws(Last(Outcomes(t.log))[2])

\* C13: a request that met an irrecoverable failure ends with exactly one
\* apology fragment, directly followed by the terminal marker.
C13_FailureApologises ==
  \A c \in TurnIds :
    (turn[c].ended /\ Irrecoverable(turn[c])) =>
      /\ Count(turn[c].out, "apology") = 1
      /\ Len(Data(turn[c].out)) >= 2
      /\ Data(turn[c].out)[Len(Data(turn[c].out)) - 1] = "apology"
      /\ Last(Data(turn[c].out)) = "stream_end"

\* both attempts returned empty content: no chunk, or only whitespace
BothEmpty(t) ==
  /\ Len(Outcomes(t.log)) = maxAttempts
  /\ \A i \in DOMAIN Outcomes(t.log) : Outcomes(t.log)[i][2] \in {"empty", "blank"}

\* C14: when generation returns empty content on both attempts, the client
\* receives the fallback apology as its only fragment, then the terminal
\* marker, and the chat entry's answer stays unset.
C14_EmptyTwiceOneFragment ==
  \A c \in TurnIds :
    (turn[c].ended /\ BothEmpty(turn[c])) =>
      /\ Data(turn[c].out) = <<"apology", "stream_end">>
      /\ chatDocs[c].aiChat = "null"

\* C15: the generation service is called at most twice for a request, and a
\* call is never issued after an attempt that finished with non-blank text.
C15_AtMostTwoGenerations ==
  \A c \in TurnIds :
    /\ Cardinality(At(turn[c].log, "generate")) <= 2
    /\ \A i, k \in DOMAIN turn[c].log :
         (turn[c].log[i] = <<"generated", "text">> /\ turn[c].log[k][1] = "generate")
           => k < i
    /\ \A k \in At(turn[c].log, "generate") :
         (\E i \in At(turn[c].log, "generate") : i < k) =>
           turn[c].log[k - 1] \in {<<"generated", "empty">>, <<"generated", "blank">>,
                                   <<"generated", "throw">>,
                                   <<"generated", "textThenThrow">>}

\* the second call is in progress after a blank first response
C15_Witness ==
  \E c \in TurnIds :
    /\ turn[c].pc = "generating"
    /\ Cardinality(At(turn[c].log, "generate")) = 2
    /\ Has(turn[c].log, "generated", "blank")

\* C16: whenever generation has been called for a request, its chat entry was
\* created before, holding the question, and holds no answer until the
\* generation is over; after a failed creation generation is never called.
C16_TurnPersistedBeforeGeneration ==
  \A c \in TurnIds :
    /\ \A k \in At(turn[c].log, "generate") :
         \E i \in DOMAIN turn[c].log : i < k /\ turn[c].log[i] = <<"create", "ok">>
    /\ Has(turn[c].log, "create", "throw") => At(turn[c].log, "generate") = {}
    /\ turn[c].pc \in {"generate", "generating"} =>
         /\ chatDocs[c].jobId = turn[c].jobId
         /\ chatDocs[c].userChat = "prompt"
         /\ chatDocs[c].aiChat = "null"

\* a generation call is in progress, its chat entry is stored without answer
C16_Witness ==
  \E c \in TurnIds :
    /\ turn[c].pc = "generating"
    /\ chatDocs[c].jobId # NoJob
    /\ chatDocs[c].aiChat = "null"

\* C17: on a chat with a non-blank response the terminal marker is written
\* only after the answer write and then the chat-pair upsert have both been
\* attempted, and a stored pair carries the request's session id.
C17_PersistBeforeMarker ==
  \A c \in TurnIds :
    (turn[c].responseValid /\ Count(turn[c].out, "stream_end") = 1) =>
      /\ \E i \in At(turn[c].log, "update"), k \in At(turn[c].log, "upsert") : i < k
      /\ \A p \in chatPoints : p.id = turn[c].chatId => p.jobId = turn[c].jobId

\* C18: an answer is written to a chat entry at most once, and a request that
\* streamed a valid response and ended with the terminal marker leaves its
\* chat entry with an answer.
C18_AnswerSetOnce ==
  \A c \in TurnIds :
    /\ chatDocs[c].writes <= 1
    /\ (turn[c].responseValid /\ turn[c].ended) => chatDocs[c].aiChat # "null"

\* C19: while a generation call is in progress the heartbeat timer of the
\* response is running, and it is not running on a response that has ended.
C19_HeartbeatCoversGeneration ==
  \A c \in TurnIds :
    /\ turn[c].pc = "generating" => turn[c].heartbeat
    /\ turn[c].ended => ~turn[c].heartbeat

\* C20: every point is upserted under an id generated for that upsert: ids are
\* not shared inside a collection, and a chat point's id is not the id of an
\* object stored before it.
C20_FreshPointIds ==
  /\ \A p, q \in points : p.id = q.id => p = q
  /\ \A p, q \in chatPoints : p.id = q.id => p = q
  /\ \A p \in chatPoints : \A c \in TurnIds :
       chatDocs[c].jobId # NoJob => p.id # c

\* ------------------------------------------------------- session requests
\* routes/meetingRoutes.js POST /start, one step per await, next to /stop and
\* the audio route

MaxSubmits == 1       \* upload requests made while sessions start and stop

Submits == 1..MaxSubmits

\* what `await startWorker()` gives the handler: the worker revision with
\* isWorkerRunning resolves to {success: true} or {success: false}; the
\* revision with the persistent consumer has no return statement and resolves
\* to undefined, or rejects when the broker cannot be reached
WorkerResults == {"success", "failure", "undefined", "throw"}

\* if (workerResult.success) 200 else 500; reading .success off undefined
\* throws a TypeError, and the catch block answers 500 as for a rejection
StartCode(workerResult) == IF workerResult = "success" THEN 200 ELSE 500

\* const jobId = crypto.randomUUID(); const dbResult = await
\* createTranscription(jobId); if (!dbResult) return res.status(500)
StartCreate ==
  /\ created < MaxSessions
  /\ \E dbOk \in BOOLEAN :
       /\ createTranscription(created + 1, dbOk)
       /\ start' = [start EXCEPT ![created + 1] =
                      IF dbOk THEN [NoStart EXCEPT !.pc = "worker"]
                              ELSE [NoStart EXCEPT !.pc = "responded", !.code = 500]]
  /\ created' = created + 1
  /\ UNCHANGED <<blobs, queue, published, wk, done, channelOpen, points,
                 nextPoint, stopAccepted, up, chats, chatPoints, turnVars, fx, localVars>>

\* const workerResult = await startWorker(); the cookie and 200, or 500
StartWorker(jobId) ==
  /\ start[jobId].pc = "worker"
  /\ \E workerResult \in WorkerResults :
       start' = [start EXCEPT ![jobId] =
                   [pc |-> "responded", code |-> StartCode(workerResult),
                    cookie |-> IF StartCode(workerResult) = 200 THEN jobId ELSE NoJob,
                    worker |-> workerResult]]
  /\ UNCHANGED <<status, transcriptionChunks, created, blobs, queue, published,
                 wk, done, channelOpen, points, nextPoint, stopAccepted, up,
                 chats, chatPoints, turnVars, fx, localVars>>

\* the jobId cookie of a /stop request is whatever the client sends
NextSession ==
  \/ StartCreate
  \/ \E j \in JobIds : StartWorker(j)
  \/ \E j \in {NoJob} \cup JobIds : stopSession(j)
  \/ \E j \in JobIds, s \in StatusEnum : updateMeetingStatus(j, s)
  \/ \E r \in Submits :
       \/ Receive(r)
       \/ WriteDone(r)
       \/ ProbeDone(r)
       \/ Connected(r)
       \/ ChannelCreated(r)

SpecSession == Init /\ [][NextSession]_vars

\* C22: when /start answers, either it answers 200 with the new id and the
\* meeting document exists with status in-progress, or it answers an error and
\* no meeting document exists for the id it had generated.
C22_StartIsAtomic ==
  [][\A j \in JobIds :
       (start[j].pc # "responded" /\ start'[j].pc = "responded") =>
         IF start'[j].code = 200
           THEN status'[j] = InProgress /\ start'[j].cookie = j
           ELSE status'[j] = "none"]_vars

\* C23: a /stop request naming an id for which no meeting document exists is
\* not accepted: it is not answered 202 and publishes nothing.
C23_StopUnknownNotFound ==
  [][\A j \in JobIds :
       status[j] = "none" =>
         /\ stopAccepted'[j] = stopAccepted[j]
         /\ \A i \in DOMAIN queue' : i > Len(queue) => queue'[i].jobId # j]_vars

\* C24: while every meeting that exists is completed, an upload is not
\* accepted: no request gets its message published.
C24_SubmitOnCompletedRejected ==
  [][(/\ \E j \in JobIds : status[j] = Completed
      /\ \A j \in JobIds : status[j] \in {"none", Completed})
       => \A r \in Submits : up'[r].sent = up[r].sent]_vars

\* C25 (as claimed): a request rejected by one of the three validation checks
\* is rejected by the earliest failing check in the order size, duration,
\* format.
C25_ValidationOrder ==
  \A r \in Uploads :
    LET u == up[r]
        earliest == IF u.size > MaxBytes THEN "size"
                    ELSE IF u.duration > MaxDuration THEN "duration"
                    ELSE IF u.format \notin supportedFormats THEN "format"
                    ELSE "none"
    IN  (u.pc = "responded" /\ u.stage \in {"size", "duration", "format"})
          => u.stage = earliest

\* C25 (amended): the handler's checks run in the order format, size,
\* duration and stop at the first failure: a request rejected by one of them
\* is rejected by the earliest failing check in that order, and a request that
\* got past them fails none. (A file above multer's limit never reaches them.)
C25_ValidationOrderAsCoded ==
  \A r \in Uploads :
    LET u == up[r]
        earliest == IF u.format \notin supportedFormats THEN "format"
                    ELSE IF u.size > MaxBytes THEN "size"
                    ELSE IF u.duration > MaxDuration THEN "duration"
                    ELSE "none"
    IN  /\ (u.pc = "responded" /\ u.stage \in {"size", "duration", "format"})
             => u.stage = earliest
        /\ (u.pc \in {"connect", "channel"} \/ u.stage \in {"connect", "channel", "sent"})
             => earliest = "none"

\* a file with an unsupported format and an excessive duration was rejected
\* for its format, and another for its duration alone
C25_Witness ==
  /\ \E r \in Uploads :
       /\ up[r].pc = "responded" /\ up[r].stage = "format"
       /\ up[r].duration > MaxDuration
  /\ \E r \in Uploads :
       up[r].pc = "responded" /\ up[r].stage = "duration"

\* C26: when the handler is about to append (transcription has finished) and
\* the meeting's stored status is completed at that moment, the append is
\* skipped: the transcript stays as it is.
C26_StatusRereadBeforeAppend ==
  [][\A w \in Workers :
       (/\ wk[w].pc = "append"
        /\ wk[w].jobId \in JobIds
        /\ status[wk[w].jobId] = Completed)
         => transcriptionChunks' = transcriptionChunks]_vars

\* ------------------------------------------------------------ fetchWithRetry
\* frontend/service-worker.js fetchWithRetry as handleAudioUpload calls it: the
\* request of attempt i is upload request i + 1 of the audio route

initialDelay == 1000   \* let delay = 1000

\* formData.append('audio', audioBlob, 'audio_chunk.webm'): one chunk of the
\* recorder, the same in every attempt
Chunk == [format |-> "webm", size |-> 20971520, duration |-> 600]

\* fetch rejected: there is no response and so no status
NoResponse == 0

\* response.ok
Ok(code) == code \in 200..299

\* (variant: the wait stays the same)
NextDelayFixed(delay) == delay
\* delay *= 2
NextDelay(delay) == delay * 2

rest == <<status, transcriptionChunks, created, blobs, queue, published, wk,
          done, channelOpen, points, nextPoint, stopAccepted, up, chats,
          chatPoints, turnVars, start, localVars>>

\* handleAudioUpload calls fetchWithRetry(BACKEND_AUDIO_API_URL, {method, body})
FetchCall ==
  /\ fx.pc = "none"
  /\ fx' = [NoFetch EXCEPT !.pc = "fetch", !.delay = initialDelay]
  /\ UNCHANGED rest

\* fetch(url, {...options, credentials: 'include'}): the request reaches the
\* backend, where multer and the handler take it up
Send ==
  /\ fx.pc = "fetch"
  /\ LET r == fx.i + 1 IN
       /\ Receive(r)
       /\ up'[r].file
       /\ up'[r].format = Chunk.format
       /\ up'[r].size = Chunk.size
       /\ up'[r].duration = Chunk.duration

\* the catch block: wait and go round again, or rethrow after the last attempt
Caught(error, lg) ==
  IF fx.i < retries - 1
    THEN fx' = [fx EXCEPT !.pc = "wait", !.error = error,
                          !.log = Append(lg, <<"wait", fx.delay>>)]
    ELSE fx' = [fx EXCEPT !.pc = "thrown", !.error = error, !.log = lg]

\* the awaited fetch settles: with the backend's response (returned when ok,
\* thrown as an HTTP error otherwise), or with a rejection (the request never
\* arrived, or the connection broke before the response did)
Settle ==
  /\ fx.pc = "fetch"
  /\ LET r == fx.i + 1 IN
       \/ /\ up[r].pc = "responded"
          /\ LET lg == Append(fx.log, <<"fetch", up[r].code>>) IN
               IF Ok(up[r].code)
                 THEN fx' = [fx EXCEPT !.pc = "returned", !.log = lg]
                 ELSE Caught(up[r].code, lg)
       \/ Caught(NoResponse, Append(fx.log, <<"fetch", NoResponse>>))
  /\ UNCHANGED rest

\* setTimeout(res, delay) fires; delay *= 2; i++
WaitDone ==
  /\ fx.pc = "wait"
  /\ fx' = [fx EXCEPT !.pc = "fetch", !.i = @ + 1, !.delay = NextDelay(@)]
  /\ UNCHANGED rest

NextFetch ==
  \/ FetchCall
  \/ Send
  \/ Settle
  \/ WaitDone
  \/ \E r \in Requests :
       \/ WriteDone(r)
       \/ ProbeDone(r)
       \/ Connected(r)
       \/ ChannelCreated(r)

SpecFetch == Init /\ [][NextFetch]_vars

\* C27: fetchWithRetry makes at most `retries` attempts; the wait after the
\* first failed attempt is 1000 ms and each later wait is twice the one before;
\* it returns exactly when an attempt got an ok response, which is then its
\* last attempt; it throws only after `retries` failed attempts, with the
\* error of the last one and with no wait after it.
C27_BoundedBackoff ==
  LET lg == fx.log
      fetches == Calls(lg, "fetch")
  IN  /\ Cardinality(fetches) <= retries
      /\ \A k \in DOMAIN lg :
           IF k % 2 = 1
             THEN lg[k][1] = "fetch"
             ELSE lg[k] = <<"wait", IF k = 2 THEN 1000 ELSE 2 * lg[k - 2][2]>>
      /\ \A k \in fetches :
           Ok(lg[k][2]) <=> (fx.pc = "returned" /\ k = Len(lg))
      /\ fx.pc = "thrown" =>
           /\ Cardinality(fetches) = retries
           /\ Len(lg) = 2 * retries - 1
           /\ fx.error = lg[Len(lg)][2]
      /\ fx.pc = "fetch" => Len(lg) = 2 * fx.i
      /\ fx.pc = "wait" => Len(lg) = 2 * fx.i + 2

\* three attempts failed, the last with a backend error, after waits of 1000
\* and 2000 ms, and the call threw
C27_Witness ==
  /\ fx.pc = "thrown"
  /\ Called(fx.log, "wait", 1000) /\ Called(fx.log, "wait", 2000)
  /\ fx.error = 500

\* C28: the attempts fetchWithRetry makes for one chunk publish at most one
\* message between them.
C28_OneJobPerChunk ==
  Cardinality({r \in Requests : up[r].sent # 0}) <= 1

\* ------------------------------------------------ handler runs, continued

C31_FailureLeavesNothing ==
  (done.outcome = "nacked") =>
    /\ \A j \in JobIds : \A i \in DOMAIN transcriptionChunks[j] :
         transcriptionChunks[j][i] # done.tag
    /\ \A p \in points : p.src # done.tag

\* ------------------------------------------- chat turn: the answer text

\* fullResponseText = currentResponseChunk of the attempt that was valid: the
\* fragments of that attempt alone ('' while no attempt was valid)
fullResponseText(c) ==
  LET o == Outcomes(turn[c].log) IN
  IF o # <<>> /\ ValidResponse(Last(o)[2]) THEN Fragments(Last(o)[2]) ELSE <<>>

\* the fragments written to the response as data: {text: chunkText}
Forwarded(out) == SelectSeq(out, LAMBDA e : e \in {"text", "blank"})

\* C32: when the answer of a request has been written to its chat document,
\* the text written is the concatenation, in arrival order, of exactly the
\* fragments that were forwarded to the client.
C32_PersistedEqualsForwarded ==
  \A c \in TurnIds :
    Has(turn[c].log, "update", "ok") =>
      fullResponseText(c) = Forwarded(turn[c].out)

\* C33: nothing is written to a response that has been ended: its stream_end
\* stays the last thing written, and no write is attempted on it afterwards.
C33_NoWriteAfterEnd ==
  \A c \in TurnIds :
    turn[c].ended =>
      /\ Last(turn[c].out) = "stream_end"
      /\ ~turn[c].late

\* ---------------------------------------------------------------- startWorker
\* controllers/worker.js startWorker (persistent worker), one step per await;
\* index.js calls it at boot and POST /start calls it for every new meeting.
\* A connection is named by the invocation that opened it, and so is its channel.

base == <<status, transcriptionChunks, created, blobs, queue, published, wk, done,
          channelOpen, points, nextPoint, stopAccepted, up, chats, chatPoints,
          turnVars, start, fx>>

\* catch: if (globalConnection) await globalConnection.close(); throw error.
\* Closing a connection closes its channels and cancels their consumers.
WsCatch(i) ==
  ws' = [ws EXCEPT !.pc[i] = "thrown",
                   !.open = @ \ {ws.globalConnection},
                   !.consumers = {k \in @ : k.channel # ws.globalConnection}]

\* startWorker() is called: initialiseCloudinary(), amqp.connect is issued
WsInvoke(i) ==
  /\ ws.pc[i] = "none"
  /\ \A k \in Starts : k < i => ws.pc[k] # "none"
  /\ ws' = [ws EXCEPT !.pc[i] = "connect"]
  /\ UNCHANGED <<base, sw, cl, rs>>

\* globalConnection = await amqp.connect(CLOUDAMQP_URL); createChannel is issued
WsConnect(i) ==
  /\ ws.pc[i] = "connect"
  /\ \/ ws' = [ws EXCEPT !.pc[i] = "channel", !.open = @ \cup {i},
                         !.globalConnection = i]
     \/ WsCatch(i)
  /\ UNCHANGED <<base, sw, cl, rs>>

\* globalChannel = await globalConnection.createChannel(); the close handlers
\* are registered and assertQueue is issued
WsChannel(i) ==
  /\ ws.pc[i] = "channel"
  /\ \/ /\ i \in ws.open
        /\ ws' = [ws EXCEPT !.pc[i] = "setup", !.globalChannel = i]
     \/ WsCatch(i)
  /\ UNCHANGED <<base, sw, cl, rs>>

\* await assertQueue; await createTranCollection(); await createChatCollection();
\* then globalChannel.prefetch(1) and globalChannel.consume(...) on whatever
\* channel globalChannel names by now
WsSetup(i) ==
  /\ ws.pc[i] = "setup"
  /\ \/ /\ ws.globalChannel \in ws.open
        /\ ws' = [ws EXCEPT !.pc[i] = "started",
                            !.consumers = @ \cup {[channel |-> ws.globalChannel,
                                                   by |-> i]}]
     \/ WsCatch(i)
  /\ UNCHANGED <<base, sw, cl, rs>>

NextWorkerStart ==
  \E i \in Starts :
    \/ WsInvoke(i)
    \/ WsConnect(i)
    \/ WsChannel(i)
    \/ WsSetup(i)

SpecWorkerStart == Init /\ [][NextWorkerStart]_vars

\* C34: at most one queue connection is open and at most one consumer is
\* registered at any time, whatever the number and the interleaving of the
\* startWorker invocations.
C34_SingleConsumer ==
  /\ Cardinality(ws.open) <= 1
  /\ Cardinality(ws.consumers) <= 1

\* ------------------------------------------------- extension service worker
\* frontend/service-worker.js: the onMessage listener, one step per await of
\* each listener call; the popup and the offscreen recorder send the messages

pollMaxAttempts == 30   \* pollForTranscription = async (maxAttempts = 30, ...)

\* finally: activeTabId = null; isStopping = false; workerStatus = 'stopped'
Cleanup(v) == [v EXCEPT !.activeTabId = "null", !.isStopping = FALSE,
                        !.workerStatus = "stopped"]

\* catch of startMeeting: isRecording = false; activeTabId = null;
\* workerStatus = 'stopped'; then closeOffscreenDocument()
StartFailed(m) ==
  sw' = [sw EXCEPT !.isRecording = FALSE, !.activeTabId = "null",
                   !.workerStatus = "stopped", !.startH[m] = "closeHas"]

\* popup.js: the user starts a recording (the offscreen recorder is told to
\* start) and 'startMeeting' reaches the listener: it returns at once while
\* isRecording, otherwise sets the flags and issues POST /start
SwStartMeeting(m) ==
  /\ sw.startH[m] = "none"
  /\ \A n \in StartMsgs : n < m => sw.startH[n] # "none"
  /\ LET v == [sw EXCEPT !.offscreen = TRUE,
                         !.rec = IF sw.rec = "off" THEN "on" ELSE sw.rec]
     IN  sw' = IF sw.isRecording
                 THEN [v EXCEPT !.startH[m] = "done"]
                 ELSE [v EXCEPT !.workerStatus = "starting", !.isRecording = TRUE,
                                !.isStopping = FALSE, !.session = @ + 1,
                                !.startH[m] = "fetch"]
  /\ UNCHANGED <<base, ws, cl, rs>>

\* await fetchWithRetry(START_MEETING_API_URL) and response.json()
SwStartFetched(m) ==
  /\ sw.startH[m] = "fetch"
  /\ \/ sw' = [sw EXCEPT !.startH[m] = "cookie"]
     \/ StartFailed(m)
  /\ UNCHANGED <<base, ws, cl, rs>>

\* await waitForJobIdCookie(); workerStatus = 'running'
SwStartCookie(m) ==
  /\ sw.startH[m] = "cookie"
  /\ \/ sw' = [sw EXCEPT !.workerStatus = "running", !.startH[m] = "done"]
     \/ StartFailed(m)
  /\ UNCHANGED <<base, ws, cl, rs>>

\* closeOffscreenDocument(), first await: chrome.offscreen.hasDocument()
SwStartCloseHas(m) ==
  /\ sw.startH[m] = "closeHas"
  /\ sw' = [sw EXCEPT !.startH[m] = IF sw.offscreen THEN "closeDo" ELSE "done"]
  /\ UNCHANGED <<base, ws, cl, rs>>

\* closeOffscreenDocument(), second await: chrome.offscreen.closeDocument(),
\* which rejects when the document is gone by now
SwStartCloseDo(m) ==
  /\ sw.startH[m] = "closeDo"
  /\ sw' = IF sw.offscreen
             THEN [sw EXCEPT !.offscreen = FALSE, !.rec = "off",
                             !.startH[m] = "done"]
             ELSE [sw EXCEPT !.startH[m] = "rejected"]
  /\ UNCHANGED <<base, ws, cl, rs>>

\* 'stopRecording': nothing to stop, or the flags are set and the offscreen
\* recorder is told to stop (it hands over its last chunk then)
SwStopRecording ==
  /\ sw.isRecording \/ sw.isStopping
  /\ sw' = [sw EXCEPT !.isStopping = TRUE, !.isRecording = FALSE,
                      !.rec = IF sw.rec = "on" THEN "stopping" ELSE sw.rec]
  /\ UNCHANGED <<base, ws, cl, rs>>

\* 'onAudioChunkReady' from the offscreen recorder: a chunk of the running
\* recording, or the last chunk after it was told to stop; handleAudioUpload
\* is started
SwChunkReady(k) ==
  /\ sw.chunkH[k].pc = "none"
  /\ \A n \in ChunkMsgs : n < k => sw.chunkH[n].pc # "none"
  /\ sw.rec \in {"on", "stopping"}
  /\ sw' = [sw EXCEPT !.chunkH[k].pc = "upload",
                      !.chunkH[k].final = (sw.rec = "stopping"),
                      !.rec = IF sw.rec = "stopping" THEN "off" ELSE sw.rec]
  /\ UNCHANGED <<base, ws, cl, rs>>

\* await handleAudioUpload(blob) returns (it catches its own errors);
\* if (isStopping) POST /stop is issued
SwUploaded(k) ==
  /\ sw.chunkH[k].pc = "upload"
  /\ sw' = IF sw.isStopping
             THEN [sw EXCEPT !.chunkH[k].pc = "stop",
                             !.stops = @ \cup {[by |-> k,
                                                  final |-> sw.chunkH[k].final,
                                                  session |-> sw.session]}]
             ELSE [sw EXCEPT !.chunkH[k].pc = "done"]
  /\ UNCHANGED <<base, ws, cl, rs>>

\* await fetchWithRetry(STOP_MEETING_API_URL): polling starts, or the catch
\* block and then the finally block run
SwStopFetched(k) ==
  /\ sw.chunkH[k].pc = "stop"
  /\ \/ sw' = [sw EXCEPT !.chunkH[k].pc = "poll"]
     \/ sw' = [sw EXCEPT !.chunkH[k].pc = "closeHas"]
  /\ UNCHANGED <<base, ws, cl, rs>>

\* pollForTranscription, one attempt: the transcription is complete, or the
\* attempt failed or found it not ready and the loop waits and goes on; after
\* for (let i = 0; i < maxAttempts; i++) the function throws
\* (polls is the loop variable i: the attempts made so far, gone on return)
SwPoll(k) ==
  /\ sw.chunkH[k].pc = "poll"
  /\ \/ sw' = [sw EXCEPT !.chunkH[k].pc = "closeHas", !.chunkH[k].polls = 0]
     \/ sw' = IF sw.chunkH[k].polls + 1 >= pollMaxAttempts
                THEN [sw EXCEPT !.chunkH[k].pc = "closeHas", !.chunkH[k].polls = 0]
                ELSE [sw EXCEPT !.chunkH[k].polls = @ + 1]
  /\ UNCHANGED <<base, ws, cl, rs>>

\* finally: closeOffscreenDocument(), first await; without a document the
\* cleanup assignments follow at once
SwCloseHas(k) ==
  /\ sw.chunkH[k].pc = "closeHas"
  /\ sw' = IF sw.offscreen
             THEN [sw EXCEPT !.chunkH[k].pc = "closeDo"]
             ELSE [Cleanup(sw) EXCEPT !.chunkH[k].pc = "done"]
  /\ UNCHANGED <<base, ws, cl, rs>>

\* finally: closeDocument() and the cleanup assignments; when it rejects the
\* assignments are skipped
SwCloseDo(k) ==
  /\ sw.chunkH[k].pc = "closeDo"
  /\ sw' = IF sw.offscreen
             THEN [Cleanup(sw) EXCEPT !.offscreen = FALSE, !.rec = "off",
                                      !.chunkH[k].pc = "done"]
             ELSE [sw EXCEPT !.chunkH[k].pc = "rejected"]
  /\ UNCHANGED <<base, ws, cl, rs>>

\* the steps the listener calls take by themselves
SwStep ==
  \/ \E m \in StartMsgs :
       \/ SwStartFetched(m)
       \/ SwStartCookie(m)
       \/ SwStartCloseHas(m)
       \/ SwStartCloseDo(m)
  \/ \E k \in ChunkMsgs :
       \/ SwUploaded(k)
       \/ SwStopFetched(k)
       \/ SwPoll(k)
       \/ SwCloseHas(k)
       \/ SwCloseDo(k)

NextSw ==
  \/ \E m \in StartMsgs : SwStartMeeting(m)
  \/ SwStopRecording
  \/ \E k \in ChunkMsgs : SwChunkReady(k)
  \/ SwStep

SpecSw == Init /\ [][NextSw]_vars

\* every await of a listener call settles
SpecSwLive == SpecSw /\ WF_vars(SwStep)

\* C35: the stop-meeting request is sent at most once per recording session
\* and only by the handler of the final chunk, after its upload; a chunk whose
\* upload was in progress when stop was pressed does not send it
C35_StopOncePerSession ==
  /\ \A r \in sw.stops : r.final
  /\ \A r \in sw.stops : \A t \in sw.stops :
       r # t => r.session # t.session

\* C36: isRecording and isStopping are never both true, and while isRecording
\* is true workerStatus is 'starting' or 'running'
C36_RecordingStateConsistent ==
  /\ ~(sw.isRecording /\ sw.isStopping)
  /\ sw.isRecording => sw.workerStatus \in {"starting", "running"}

\* stop was requested and the final chunk was handed to the service worker
FinalHanded == \E k \in ChunkMsgs : sw.chunkH[k].final /\ sw.chunkH[k].pc # "none"

\* the cleanup of the stop flow is complete
CleanedUp ==
  /\ ~sw.isStopping
  /\ sw.workerStatus = "stopped"
  /\ sw.activeTabId = "null"
  /\ ~sw.offscreen

\* C37: once stop was requested and the final chunk handed over, the stop flow
\* completes its cleanup (isStopping false, workerStatus 'stopped', activeTabId
\* null, offscreen document closed), and polling makes at most 30 attempts
C37_StopFlowCleansUp ==
  /\ [](\A k \in ChunkMsgs : sw.chunkH[k].polls < pollMaxAttempts)
  /\ (FinalHanded ~> CleanedUp)

\* ------------------------------------------------------------------ clean
\* backend/controllers/clean.js: one call of clean(text); a response of the
\* refinement service is a short text over the tokens "[" "]" "1" (a JSON
\* value) and "x" (prose), or the request fails

MAX_RETRIES == 3

\* the request threw
Threw == <<"throw">>

Responses ==
  { Threw,
    <<>>,                                  \* choices[0]?.message?.content || ''
    <<"x">>,
    <<"[", "1", "]">>,
    <<"[", "x", "]">>,
    <<"x", "[", "1", "]", "x">>,
    <<"[", "x", "]", "[", "1", "]">> }

\* fullResponse.match(/\[[\s\S]*\]/): from the first "[" that has a "]" after
\* it up to the last "]"; <<>> when there is no match
jsonMatch(r) ==
  LET opens  == {i \in DOMAIN r : r[i] = "["}
      closes == {j \in DOMAIN r : r[j] = "]"}
      pairs  == {i \in opens : \E j \in closes : i < j}
  IN  IF pairs = {} THEN <<>>
      ELSE LET i == CHOOSE a \in pairs : \A b \in pairs : a <= b
               j == CHOOSE a \in closes : \A b \in closes : b <= a
           IN  SubSeq(r, i, j)

\* JSON.parse accepts the text: brackets around JSON values
Parses(t) ==
  /\ Len(t) >= 2
  /\ t[1] = "[" /\ t[Len(t)] = "]"
  /\ \A i \in 2..(Len(t) - 1) : t[i] = "1"

\* JSON.parse(jsonString): the values between the brackets
parsedJson(t) == SubSeq(t, 2, Len(t) - 1)

\* clean(text) is called
CleanInvoke ==
  /\ cl.pc = "none"
  /\ cl' = [cl EXCEPT !.pc = "running", !.attempt = 1]
  /\ UNCHANGED <<base, ws, sw, rs>>

\* one pass of the loop body: the request, the match, the parse, and the
\* catch block
CleanAttempt ==
  /\ cl.pc = "running"
  /\ \E r \in Responses :
       LET m    == jsonMatch(r)
           seen == [cl EXCEPT !.responses = Append(@, r)]
           next == IF cl.attempt + 1 <= MAX_RETRIES
                     THEN [seen EXCEPT !.attempt = @ + 1]
                     ELSE [seen EXCEPT !.pc = "thrown"]
       IN  cl' = IF r = Threw \/ (m # <<>> /\ ~Parses(m))
                   THEN IF cl.attempt = MAX_RETRIES
                          THEN [seen EXCEPT !.pc = "thrown"]
                          ELSE next
                 ELSE IF m = <<>>
                   THEN next
                 ELSE [seen EXCEPT !.pc = "returned", !.result = parsedJson(m)]
  /\ UNCHANGED <<base, ws, sw, rs>>

NextClean ==
  \/ CleanInvoke
  \/ CleanAttempt

SpecClean == Init /\ [][NextClean]_vars

\* the response contains a parseable JSON array
ContainsArray(r) ==
  \E i \in DOMAIN r : \E j \in DOMAIN r : i < j /\ Parses(SubSeq(r, i, j))

\* C38: clean calls the refinement service at most 3 times; it returns the
\* parsed array of the first attempt whose response contains a parseable JSON
\* array, and otherwise throws after the third attempt
C38_CleanBoundedRetries ==
  /\ Len(cl.responses) <= MAX_RETRIES
  /\ cl.pc = "running" => Len(cl.responses) < MAX_RETRIES
  /\ cl.pc = "running" =>
       \A i \in DOMAIN cl.responses : ~ContainsArray(cl.responses[i])
  /\ cl.pc = "returned" =>
       LET n == Len(cl.responses) IN
       /\ ContainsArray(cl.responses[n])
       /\ \A i \in 1..(n - 1) : ~ContainsArray(cl.responses[i])
       /\ Parses(<<"[">> \o cl.result \o <<"]">>)
  /\ cl.pc = "thrown" =>
       /\ Len(cl.responses) = MAX_RETRIES
       /\ \A i \in DOMAIN cl.responses : ~ContainsArray(cl.responses[i])

\* ------------------------------------------------------- RecordingService
\* testFront/recordingService.js: handleChunkUpload, processUploadQueue and
\* waitForAllUploads of one RecordingService

\* the uploads that were started and have not settled
PendingUploads(v) == {c \in 1..MaxRsChunks : v.uploads[c] = "pending"}

\* return this.uploadQueue.length === 0, with the uploads pending just then
WaitReturns(v) ==
  [v EXCEPT !.wait = IF Len(v.uploadQueue) = 0 THEN "true" ELSE "false",
            !.pendingAtReturn = PendingUploads(v)]

\* processUploadQueue from its start, or from the end of an await, up to the
\* next await: the loop takes the next item, or it ends, the flag is cleared
\* and a waitForAllUploads that awaited this call returns
Loop(v, by) ==
  IF Len(v.uploadQueue) > 0
    THEN [v EXCEPT !.isProcessingQueue = TRUE, !.owner = by,
                   !.uploadItem = Head(v.uploadQueue),
                   !.uploadQueue = Tail(v.uploadQueue)]
    ELSE LET end == [v EXCEPT !.isProcessingQueue = FALSE, !.owner = "none",
                              !.uploadItem = 0]
         IN  IF by = "wait" THEN WaitReturns(end) ELSE end

\* handleChunkUpload(chunkBlob): the upload is started and queued, and
\* processUploadQueue() is called without await
RsHandleChunkUpload ==
  /\ rs.chunkCounter < MaxRsChunks
  /\ LET chunkNumber == rs.chunkCounter + 1
         v == [rs EXCEPT !.chunkCounter = chunkNumber,
                         !.uploads[chunkNumber] = "pending",
                         !.uploadQueue = Append(@, chunkNumber)]
     IN  rs' = IF v.isProcessingQueue THEN v ELSE Loop(v, "bg")
  /\ UNCHANGED <<base, ws, sw, cl>>

\* the fetch of a chunk resolves or rejects
RsSettle(c) ==
  /\ rs.uploads[c] = "pending"
  /\ rs' = [rs EXCEPT !.uploads[c] = "settled"]
  /\ UNCHANGED <<base, ws, sw, cl>>

\* await uploadItem.uploadPromise is over: the loop goes on
RsAwaited ==
  /\ rs.owner # "none"
  /\ rs.uploads[rs.uploadItem] = "settled"
  /\ rs' = Loop(rs, rs.owner)
  /\ UNCHANGED <<base, ws, sw, cl>>

\* waitForAllUploads(): await this.processUploadQueue(), which returns at
\* once while another call is running, then the length test
RsWaitForAllUploads ==
  /\ rs.wait = "none"
  /\ rs' = IF rs.isProcessingQueue
             THEN WaitReturns(rs)
             ELSE Loop([rs EXCEPT !.wait = "waiting"], "wait")
  /\ UNCHANGED <<base, ws, sw, cl>>

NextRecording ==
  \/ RsHandleChunkUpload
  \/ \E c \in 1..MaxRsChunks : RsSettle(c)
  \/ RsAwaited
  \/ RsWaitForAllUploads

SpecRecording == Init /\ [][NextRecording]_vars

\* C39: waitForAllUploads resolves to true only when every upload that was
\* started has settled, also when processUploadQueue was already running
C39_WaitMeansAllSettled ==
  (rs.wait = "true") => rs.pendingAtReturn = {}
====
